---- MODULE Spec2Model ----
(***************************************************************************)
(* Agent-level RBAC of the chat backend: the AgentAccessControl class      *)
(* (backend/rbac.py), the FastAPI handlers that use it (backend/main.py)   *)
(* and the MCP chat handlers.  Strings that the code only compares are     *)
(* TLA+ strings; strings that the code searches (agent names, patterns)    *)
(* are sequences of characters.                                            *)
(***************************************************************************)
EXTENDS Integers, Sequences, FiniteSets, TLC

VARIABLES
    config,   \* AgentAccessControl.config: the policy document being served
    req,      \* the in-flight HTTP requests, one record per slot
    call,     \* the last direct call made on the AgentAccessControl object
    runs,     \* agent service: ids of the agents with a run waiting for consent
    jwks_cache, \* token validator: the cached signing-key set
    idp,      \* identity provider: the published key set, and whether it answers
    layout,   \* browser: ChatLayout's state (sessions, activeSession)
    view,     \* browser: the chat view's state (ChatArea or Chat)
    pending,  \* browser: the API calls in flight, each with its continuation
    store,    \* chat backend: the stored sessions and their messages
    authContext \* browser: AuthProvider's state and the ApiClient's header

vars == <<config, req, call, runs, jwks_cache, idp, layout, view, pending, store, authContext>>

\* the variables of the server, and those of the browser
backend == <<config, req, call, runs, jwks_cache, idp>>
frontend == <<layout, view, pending, store, authContext>>

----------------------------------------------------------------------------
(* Bounds of the model.                                                    *)

\* longest roles claim / role list passed to the evaluator
MaxRoles == 2

\* longest agent catalog passed to filter_agents_by_access
MaxCatalog == 2

\* HTTP requests the server handles at the same time
MaxInFlight == 2

\* the longest time a caller allows, and the polls a wait is followed for
MaxDeadline == 2
MaxPolls == 4

\* messages sent from one chat view, sessions created by the chat backend,
\* and API calls of the browser in flight at the same time
MaxSends == 2
MaxCreated == 1
MaxPending == 2

----------------------------------------------------------------------------
(* Python dictionaries and strings.                                        *)

EmptyDict == [k \in {} |-> k]

\* dict.get(key, default)
Get(d, key, default) == IF key \in DOMAIN d THEN d[key] ELSE default

\* Characters are one-character strings; the two non-ASCII characters are
\* written by code point: U+00C9 is E-acute, U+00E9 is e-acute.
LowerChar(c) ==
    CASE c = "P" -> "p"
      [] c = "B" -> "b"
      [] c = "U" -> "u"
      [] c = "D" -> "d"
      [] c = "G" -> "g"
      [] c = "H" -> "h"
      [] c = "U+00C9" -> "U+00E9"
      [] OTHER -> c

\* str.lower()
Lower(s) == [i \in 1..Len(s) |-> LowerChar(s[i])]

\* needle in hay (substring test; the empty string is in every string)
Contains(hay, needle) ==
    \E i \in 0..(Len(hay) - Len(needle)) :
        SubSeq(hay, i + 1, i + Len(needle)) = needle

\* the set of elements of a list
Elems(s) == {s[i] : i \in 1..Len(s)}

\* all lists over S of length at most n
RECURSIVE ListsUpTo(_, _)
ListsUpTo(S, n) ==
    IF n = 0 THEN {<<>>}
    ELSE LET shorter == ListsUpTo(S, n - 1)
         IN  shorter \cup {Append(s, x) : s \in {t \in shorter : Len(t) = n - 1}, x \in S}

----------------------------------------------------------------------------
(* Roles, agents and tokens the requests are drawn from.                   *)

\* App-role values a roles claim can carry.  Guest is assigned in Azure AD
\* but defined in no rbac_config.json.
RoleNames == {"Admin", "FinanceAnalyst", "BasicUser", "Guest"}

RoleLists == ListsUpTo(RoleNames, MaxRoles)

Star == <<"*">>

\* Agent names (agent names and patterns are shortened to a few characters).
PayrollBot     == <<"P", "a", "y">>
BudgetPlanner  == <<"B", "U", "D">>
GeneralHelper  == <<"G", "e">>
HrPolicyHelper == <<"H", "r">>
NoName         == <<>>
EcoleAssistant == <<"U+00C9", "a">>

AgentNames ==
    {PayrollBot, BudgetPlanner, GeneralHelper, HrPolicyHelper, NoName, EcoleAssistant}

\* What azure_foundry_client.list_agents() / get_agent() return: every agent
\* carries an id and a name.
Agent(id, name) == [id |-> id, name |-> name]

AllAgents ==
    { Agent("a1", PayrollBot), Agent("a2", BudgetPlanner), Agent("a3", GeneralHelper),
      Agent("a4", HrPolicyHelper), Agent("a5", NoName), Agent("a6", EcoleAssistant) }

Catalogs == ListsUpTo(AllAgents, MaxCatalog)

Users == {"rahul@company.com", "dixit@company.com"}

\* Decoded JWT payloads: with a roles claim (possibly the empty list) or
\* without one.
TokenPayloads ==
    {[preferred_username |-> u] : u \in Users}
        \cup {[preferred_username |-> u, roles |-> rl] : u \in Users, rl \in RoleLists}

----------------------------------------------------------------------------
(* rbac_config.json documents the file can hold.                           *)

\* The documented configuration: Admin has full access, FinanceAnalyst and
\* BasicUser have patterns, and two agents carry agent_metadata.
RbacConfigJson ==
    [ role_permissions |->
        [ Admin          |-> [agent_patterns |-> <<Star>>, allow_all |-> TRUE],
          FinanceAnalyst |-> [agent_patterns |-> << <<"b", "u", "d">>, <<"p", "a", "y">> >>,
                              allow_all |-> FALSE],
          BasicUser      |-> [agent_patterns |-> << <<"g", "e">> >>, allow_all |-> FALSE] ],
      default_role |-> "BasicUser",
      agent_metadata |->
        [ agents |->
            (PayrollBot :> [required_roles |-> <<"Admin">>])
         @@ (HrPolicyHelper :> [required_roles |-> <<"Admin", "FinanceAnalyst">>]) ] ]

\* A configuration without default_role and agent_metadata, whose role
\* entries leave out optional keys; FinanceAnalyst has the wildcard pattern
\* without allow_all.
WildcardConfigJson ==
    [ role_permissions |->
        [ Admin          |-> [allow_all |-> TRUE],
          FinanceAnalyst |-> [agent_patterns |-> <<Star>>],
          BasicUser      |-> [agent_patterns |-> <<>>, allow_all |-> FALSE] ] ]

\* A configuration with upper-case and non-ASCII patterns, no Admin entry,
\* and metadata naming a role that has no role_permissions entry.
AccentConfigJson ==
    [ role_permissions |->
        [ FinanceAnalyst |-> [agent_patterns |-> << <<"U+00C9">>, <<"B", "U">> >>,
                              allow_all |-> FALSE],
          BasicUser      |-> [agent_patterns |-> << <<"y">> >>, allow_all |-> FALSE] ],
      default_role |-> "FinanceAnalyst",
      agent_metadata |->
        [ agents |->
            (GeneralHelper :> [required_roles |-> <<"Guest">>])
         @@ (EcoleAssistant :> [required_roles |-> <<"BasicUser">>])
         @@ (HrPolicyHelper :> [department |-> "HR"]) ] ]

PolicyDocs == {RbacConfigJson, WildcardConfigJson, AccentConfigJson}

\* The state of backend/rbac_config.json when it is read.
MissingFile == [exists |-> FALSE]
CorruptFile == [exists |-> TRUE, parses |-> FALSE]
JsonFile(doc) == [exists |-> TRUE, parses |-> TRUE, json |-> doc]

ConfigFiles == {MissingFile, CorruptFile} \cup {JsonFile(d) : d \in PolicyDocs}

----------------------------------------------------------------------------
(* class AgentAccessControl                                                *)

\* mutant of _get_default_config: BasicUser is left without the "chat"
\* pattern and no default_role is named
_get_default_config_short ==
    [ role_permissions |->
        [ Admin     |-> [agent_patterns |-> <<Star>>, allow_all |-> TRUE],
          BasicUser |-> [agent_patterns |-> << <<"g", "e">> >>,
                         allow_all |-> FALSE] ] ]

\* _get_default_config: "general" and "chat" shortened to "ge" and "ch"
_get_default_config ==
    [ role_permissions |->
        [ Admin     |-> [agent_patterns |-> <<Star>>, allow_all |-> TRUE],
          BasicUser |-> [agent_patterns |-> << <<"g", "e">>, <<"c", "h">> >>,
                         allow_all |-> FALSE] ],
      default_role |-> "BasicUser" ]

\* _load_config: the parsed file, or the defaults when the file is missing
\* or json.load raises
_load_config(file) ==
    IF ~file.exists THEN _get_default_config
    ELSE IF file.parses THEN file.json
    ELSE _get_default_config

\* mutant of reload_config: the loaded document is merged into the served
\* one (self.config.update(...)), so keys the new file lacks survive
reload_config_update(self_config, file) ==
    LET loaded == _load_config(file)
    IN  [k \in DOMAIN self_config \cup DOMAIN loaded |->
            IF k \in DOMAIN loaded THEN loaded[k] ELSE self_config[k]]

\* reload_config: self.config = self._load_config(); the value self.config
\* holds after the assignment
reload_config(self_config, file) == _load_config(file)

\* mutant of get_user_roles_from_token: the fallback role is hard-coded
get_user_roles_fixed_default(self_config, token_payload) ==
    LET roles == Get(token_payload, "roles", <<>>)
    IN  IF roles = <<>> THEN <<"BasicUser">> ELSE roles

\* mutant of get_user_roles_from_token: the default role is also assigned
\* when none of the token's roles has a role_permissions entry
get_user_roles_default_when_unknown(self_config, token_payload) ==
    LET roles == Get(token_payload, "roles", <<>>)
        role_permissions == Get(self_config, "role_permissions", EmptyDict)
    IN  IF \A i \in 1..Len(roles) : roles[i] \notin DOMAIN role_permissions
        THEN <<Get(self_config, "default_role", "BasicUser")>>
        ELSE roles

\* get_user_roles_from_token
get_user_roles_from_token(self_config, token_payload) ==
    LET roles == Get(token_payload, "roles", <<>>)
    IN  IF roles = <<>>
        THEN <<Get(self_config, "default_role", "BasicUser")>>
        ELSE roles

\* mutant of PatternsLoop: the pattern is not lower-cased
RECURSIVE PatternsLoopCaseSensitive(_, _, _)
PatternsLoopCaseSensitive(agent_patterns, agent_name_lower, j) ==
    IF j > Len(agent_patterns) THEN FALSE
    ELSE IF agent_patterns[j] = Star
            \/ Contains(agent_name_lower, agent_patterns[j])
         THEN TRUE
         ELSE PatternsLoopCaseSensitive(agent_patterns, agent_name_lower, j + 1)

\* for pattern in agent_patterns: ... return True
RECURSIVE PatternsLoop(_, _, _)
PatternsLoop(agent_patterns, agent_name_lower, j) ==
    IF j > Len(agent_patterns) THEN FALSE
    ELSE IF agent_patterns[j] = Star
            \/ Contains(agent_name_lower, Lower(agent_patterns[j]))
         THEN TRUE
         ELSE PatternsLoop(agent_patterns, agent_name_lower, j + 1)

\* mutant of RolesLoop: allow_all is not consulted
RECURSIVE RolesLoopPatternsOnly(_, _, _, _)
RolesLoopPatternsOnly(role_permissions, user_roles, agent_name_lower, i) ==
    IF i > Len(user_roles) THEN FALSE
    ELSE IF user_roles[i] \notin DOMAIN role_permissions
         THEN RolesLoopPatternsOnly(role_permissions, user_roles, agent_name_lower, i + 1)
         ELSE IF PatternsLoop(Get(role_permissions[user_roles[i]], "agent_patterns", <<>>),
                              agent_name_lower, 1)
              THEN TRUE
              ELSE RolesLoopPatternsOnly(role_permissions, user_roles,
                                         agent_name_lower, i + 1)

\* mutant of RolesLoop: an unknown role ends the loop (break for continue)
RECURSIVE RolesLoopBreakOnUnknown(_, _, _, _)
RolesLoopBreakOnUnknown(role_permissions, user_roles, agent_name_lower, i) ==
    IF i > Len(user_roles) THEN FALSE
    ELSE IF user_roles[i] \notin DOMAIN role_permissions
         THEN FALSE
         ELSE LET role_config == role_permissions[user_roles[i]]
              IN  IF Get(role_config, "allow_all", FALSE) THEN TRUE
                  ELSE IF PatternsLoop(Get(role_config, "agent_patterns", <<>>),
                                       agent_name_lower, 1)
                       THEN TRUE
                       ELSE RolesLoopBreakOnUnknown(role_permissions, user_roles,
                                                    agent_name_lower, i + 1)

\* for role in user_roles: ... ; TRUE when the loop returns True
RECURSIVE RolesLoop(_, _, _, _)
RolesLoop(role_permissions, user_roles, agent_name_lower, i) ==
    IF i > Len(user_roles) THEN FALSE
    ELSE IF user_roles[i] \notin DOMAIN role_permissions
         THEN RolesLoop(role_permissions, user_roles, agent_name_lower, i + 1)
         ELSE LET role_config == role_permissions[user_roles[i]]
              IN  IF Get(role_config, "allow_all", FALSE) THEN TRUE
                  ELSE IF PatternsLoop(Get(role_config, "agent_patterns", <<>>),
                                       agent_name_lower, 1)
                       THEN TRUE
                       ELSE RolesLoop(role_permissions, user_roles,
                                      agent_name_lower, i + 1)

\* the agent_metadata check that follows the loop over the roles
MetadataCheck(self_config, user_roles, agent_name) ==
    LET agent_metadata ==
            Get(Get(self_config, "agent_metadata", EmptyDict), "agents", EmptyDict)
    IN  /\ agent_name \in DOMAIN agent_metadata
        /\ \E i \in 1..Len(user_roles) :
               user_roles[i] \in Elems(Get(agent_metadata[agent_name],
                                           "required_roles", <<>>))

\* can_access_agent
can_access_agent(self_config, user_roles, agent_name) ==
    IF RolesLoop(Get(self_config, "role_permissions", EmptyDict),
                 user_roles, Lower(agent_name), 1)
    THEN TRUE
    ELSE MetadataCheck(self_config, user_roles, agent_name)

\* agent.get("name", agent.get("id", "Unknown"))
AgentNameOf(agent) == Get(agent, "name", Get(agent, "id", "Unknown"))

\* mutant of FilterLoop: accessible agents are put at the front of the list
RECURSIVE FilterLoopPrepend(_, _, _, _, _)
FilterLoopPrepend(self_config, user_roles, agents, k, filtered) ==
    IF k > Len(agents) THEN filtered
    ELSE FilterLoopPrepend(self_config, user_roles, agents, k + 1,
                           IF can_access_agent(self_config, user_roles,
                                               AgentNameOf(agents[k]))
                           THEN <<agents[k]>> \o filtered
                           ELSE filtered)

\* filter_agents_by_access: the loop that appends the accessible agents
RECURSIVE FilterLoop(_, _, _, _, _)
FilterLoop(self_config, user_roles, agents, k, filtered) ==
    IF k > Len(agents) THEN filtered
    ELSE FilterLoop(self_config, user_roles, agents, k + 1,
                    IF can_access_agent(self_config, user_roles, AgentNameOf(agents[k]))
                    THEN Append(filtered, agents[k])
                    ELSE filtered)

filter_agents_by_access(self_config, user_roles, agents) ==
    FilterLoop(self_config, user_roles, agents, 1, <<>>)

----------------------------------------------------------------------------
(* backend/main.py: what the handlers compute from the rbac object.        *)

\* list_agents: the "agents" field of the response
list_agents(self_config, current_user, all_agents) ==
    filter_agents_by_access(self_config,
                            get_user_roles_from_token(self_config, current_user),
                            all_agents)

\* mutant of chat_access_check: the handler goes on without the check
chat_access_unchecked(self_config, user_roles, agent) == "Allow"

\* chat: the access check on the agent returned by get_agent; 403 is the
\* HTTPException raised, "Allow" is falling through to the agent call
chat_access_check(self_config, user_roles, agent) ==
    IF ~can_access_agent(self_config, user_roles, agent.name)
    THEN "403"
    ELSE "Allow"

----------------------------------------------------------------------------
(* backend/auth.py: bearer tokens, the signing-key set and validate_token. *)

\* A bearer token as the validator sees it: whether it decodes as a JWT, the
\* key id of its header, whether its signature verifies under that key,
\* whether exp is still ahead, its audience and issuer, and its claims.
BearerToken(form, kid, signature, exp, aud, iss, claims) ==
    [form |-> form, kid |-> kid, signature |-> signature, exp |-> exp,
     aud |-> aud, iss |-> iss, claims |-> claims]

\* a token issued by the tenant for this API, signed with the key kid
IssuedToken(kid, claims) ==
    BearerToken("jwt", kid, "verifies", "ahead", "client_id", "tenant", claims)

\* the key set before the first fetch
ColdCache == [keys |-> {}, fresh |-> FALSE]

\* mutant of fetch_key_set: a failed fetch empties the cached key set
fetch_key_set_clears(cache, provider) ==
    IF provider.up
    THEN [keys |-> provider.keys, fresh |-> TRUE]
    ELSE ColdCache

\* fetching the published key set: the fetched set replaces the cached one;
\* when the identity provider does not answer, the last good set is kept
fetch_key_set(cache, provider) ==
    IF provider.up
    THEN [keys |-> provider.keys, fresh |-> TRUE]
    ELSE cache

\* mutant of get_signing_key: an unknown key id is rejected without a refresh
get_signing_key_no_refresh(cache, provider, kid) ==
    LET current == IF cache.fresh THEN cache ELSE fetch_key_set(cache, provider)
    IN  [cache |-> current, found |-> kid \in current.keys, forced |-> 0]

\* the key for a key id: from the cached set (fetched first on a cold start
\* or after the TTL), and after one forced refresh when the set lacks it
get_signing_key(cache, provider, kid) ==
    LET current == IF cache.fresh THEN cache ELSE fetch_key_set(cache, provider)
    IN  IF kid \in current.keys
        THEN [cache |-> current, found |-> TRUE, forced |-> 0]
        ELSE LET refreshed == fetch_key_set(current, provider)
             IN  [cache |-> refreshed, found |-> kid \in refreshed.keys, forced |-> 1]

\* self.jwks_client.get_signing_key_from_jwt(token): the header is decoded,
\* then the key is looked up by its kid
get_signing_key_from_jwt(cache, provider, token) ==
    IF token.form # "jwt"
    THEN [cache |-> cache, found |-> FALSE, forced |-> 0]
    ELSE get_signing_key(cache, provider, token.kid)

\* the exception raised inside the try block of validate_token, "none" when
\* the token is decoded and verified
ValidationError(token, signing_key) ==
    IF token.form # "jwt" THEN "DecodeError"
    ELSE IF ~signing_key.found THEN "PyJWKClientError"
    ELSE IF token.signature # "verifies" THEN "InvalidSignatureError"
    ELSE IF token.exp # "ahead" THEN "ExpiredSignatureError"
    ELSE IF token.aud # "client_id" THEN "InvalidAudienceError"
    ELSE IF token.iss # "tenant" THEN "InvalidIssuerError"
    ELSE "none"

\* mutant of validate_token: the exception's text is returned to the client
validate_token_detail(token, signing_key) ==
    LET e == ValidationError(token, signing_key)
    IN  IF e = "none"
        THEN [ok |-> TRUE, payload |-> token.claims]
        ELSE [ok |-> FALSE, status_code |-> 401, detail |-> e, logged |-> e]

\* validate_token: the payload, or the HTTPException raised by the except
\* branch (with the line it logs)
validate_token(token, signing_key) ==
    LET e == ValidationError(token, signing_key)
    IN  IF e = "none"
        THEN [ok |-> TRUE, payload |-> token.claims]
        ELSE [ok |-> FALSE, status_code |-> 401,
              detail |-> "Invalid or expired token", logged |-> e]

\* mutant of get_current_user: the claims are read without validation
get_current_user_unverified(cache, provider, token) ==
    [cache |-> cache, claims |-> [ok |-> TRUE, payload |-> token.claims]]

\* get_current_user: the token is validated, which may fetch the key set;
\* the claims are the current user of the handler.  (The user-table lookup
\* that follows touches nothing the handlers read and is not a step of its
\* own.)
get_current_user(cache, provider, token) ==
    LET signing_key == get_signing_key_from_jwt(cache, provider, token)
    IN  [cache |-> signing_key.cache, claims |-> validate_token(token, signing_key)]

\* get_current_user: azure_id is oid or sub, email is email or upn
UserProfile(claims) ==
    [ azure_id |-> IF "oid" \in DOMAIN claims THEN claims.oid
                   ELSE Get(claims, "sub", "None"),
      email    |-> IF "email" \in DOMAIN claims THEN claims.email
                   ELSE Get(claims, "upn", "None") ]

\* create_mcp_context(token, user_info)
create_mcp_context(token, user_info) ==
    [ oauth_token |-> token,
      user_identity |-> [azure_id |-> user_info.azure_id, email |-> user_info.email],
      mcp_enabled |-> TRUE ]

\* get_mcp_context: the context of the token that was validated
get_mcp_context(token) == create_mcp_context(token, UserProfile(token.claims))

\* mcp_client.send_message_to_agent: what create_and_process_run is given
\* (run_options); the OAuth token only adds a note to the instructions
send_message_to_agent(agent_id, user_azure_id, user_email, user_oauth_token) ==
    [ agent_id |-> agent_id,
      user_azure_id |-> user_azure_id,
      user_email |-> user_email ]

\* mcp_client.continue_after_consent: what submit_tool_outputs_to_run is
\* given
continue_after_consent(run_id) == [run_id |-> run_id]

\* no MCP context (None): false in "IF MCP_ENABLED and mcp_context"
NoContext == EmptyDict

\* 1. Get auth headers (Bearer token): the headers of every request to the
\* agent, with the credential of the service
AuthHeaders ==
    ("Content-Type" :> "application/json") @@ ("Authorization" :> "Bearer ...")

\* mutant of send_message: the MCP_ENABLED setting is not consulted
send_message_setting_ignored(MCP_ENABLED, mcp_context) ==
    IF mcp_context # NoContext
    THEN ("X-User-Id" :> mcp_context.user_identity.azure_id)
             @@ ("X-User-Email" :> mcp_context.user_identity.email)
             @@ AuthHeaders
    ELSE AuthHeaders

\* azure_foundry.send_message: the headers of the request to the agent
send_message(MCP_ENABLED, mcp_context) ==
    IF MCP_ENABLED /\ mcp_context # NoContext
    THEN LET user_email == mcp_context.user_identity.email
             user_id == mcp_context.user_identity.azure_id
         IN  ("X-User-Id" :> user_id) @@ ("X-User-Email" :> user_email)
                 @@ AuthHeaders
    ELSE AuthHeaders

----------------------------------------------------------------------------
(* Direct calls on one AgentAccessControl object whose configuration does  *)
(* not change.  A run of calls starts with any call on any arguments and   *)
(* may go on with calls related to it (the same question asked again by    *)
(* another caller at another hour, the returned list filtered again, the   *)
(* chat check for the identity that has just listed the agents); each      *)
(* action records the call's arguments and the value returned.             *)

NoCall == [op |-> "none"]

Hours == {3, 12}

CallCanAccess(user_roles, agent_name, caller, hour) ==
    /\ call = NoCall
    /\ call' = [ op |-> "can_access_agent", user_roles |-> user_roles,
                 agent_name |-> agent_name, caller |-> caller, hour |-> hour,
                 again |-> FALSE,
                 result |-> can_access_agent(config, user_roles, agent_name) ]
    /\ UNCHANGED <<config, req, runs, jwks_cache, idp, frontend>>

\* the same agent and the same set of roles, in any order, for any caller
\* at any hour
CallCanAccessAgain(user_roles, caller, hour) ==
    /\ call.op = "can_access_agent"
    /\ Elems(user_roles) = Elems(call.user_roles)
    /\ call' = [ op |-> "can_access_agent", user_roles |-> user_roles,
                 agent_name |-> call.agent_name, caller |-> caller, hour |-> hour,
                 again |-> TRUE,
                 result |-> can_access_agent(config, user_roles, call.agent_name) ]
    /\ UNCHANGED <<config, req, runs, jwks_cache, idp, frontend>>

CallFilter(user_roles, agents) ==
    /\ call = NoCall
    /\ call' = [ op |-> "filter_agents_by_access", user_roles |-> user_roles,
                 agents |-> agents, again |-> FALSE, first |-> agents,
                 result |-> filter_agents_by_access(config, user_roles, agents) ]
    /\ UNCHANGED <<config, req, runs, jwks_cache, idp, frontend>>

\* the list just returned is filtered once more for the same roles
CallFilterAgain ==
    /\ call.op = "filter_agents_by_access"
    /\ ~call.again
    /\ call' = [ op |-> "filter_agents_by_access", user_roles |-> call.user_roles,
                 agents |-> call.result, again |-> TRUE, first |-> call.agents,
                 result |-> filter_agents_by_access(config, call.user_roles, call.result) ]
    /\ UNCHANGED <<config, req, runs, jwks_cache, idp, frontend>>

CallGetUserRoles(token_payload) ==
    /\ call = NoCall
    /\ call' = [ op |-> "get_user_roles_from_token", token |-> token_payload,
                 result |-> get_user_roles_from_token(config, token_payload) ]
    /\ UNCHANGED <<config, req, runs, jwks_cache, idp, frontend>>

CallListAgents(token_payload, all_agents) ==
    /\ call = NoCall
    /\ call' = [ op |-> "list_agents", token |-> token_payload, agents |-> all_agents,
                 result |-> list_agents(config, token_payload, all_agents) ]
    /\ UNCHANGED <<config, req, runs, jwks_cache, idp, frontend>>

\* the chat handler's check for the identity that has just listed the agents
CallChatAccessCheck(agent) ==
    /\ call.op = "list_agents"
    /\ call' = [ op |-> "chat", token |-> call.token, agent |-> agent,
                 result |-> chat_access_check(
                                config,
                                get_user_roles_from_token(config, call.token),
                                agent) ]
    /\ UNCHANGED <<config, req, runs, jwks_cache, idp, frontend>>

\* the user_info of the requests whose context send_message is given
UserInfos ==
    { [azure_id |-> "oid-dixit", email |-> "dixit@company.com"],
      [azure_id |-> "sub-rahul", email |-> "rahul@company.com"],
      [azure_id |-> "oid-tejas", email |-> "None"] }

\* the mcp_context arguments: None, or what create_mcp_context built for a
\* request
McpContexts ==
    {NoContext} \cup {create_mcp_context("eyJ0eXAi...", u) : u \in UserInfos}

CallSendMessage(MCP_ENABLED, mcp_context) ==
    /\ call = NoCall
    /\ call' = [ op |-> "send_message", MCP_ENABLED |-> MCP_ENABLED,
                 mcp_context |-> mcp_context,
                 headers |-> send_message(MCP_ENABLED, mcp_context) ]
    /\ UNCHANGED <<config, req, runs, jwks_cache, idp, frontend>>

\* the run of calls ends
Forget ==
    /\ call # NoCall
    /\ call' = NoCall
    /\ UNCHANGED <<config, req, runs, jwks_cache, idp, frontend>>

\* (the guards of the opening calls are repeated here so that their
\* arguments are enumerated only where a run of calls can start)
EvalNext ==
    \/ /\ call = NoCall
       /\ \E rl \in RoleLists, n \in AgentNames, u \in Users, h \in Hours :
              CallCanAccess(rl, n, u, h)
    \/ /\ call.op = "can_access_agent"
       /\ \E rl \in RoleLists, u \in Users, h \in Hours : CallCanAccessAgain(rl, u, h)
    \/ /\ call = NoCall
       /\ \E rl \in RoleLists, c \in Catalogs : CallFilter(rl, c)
    \/ CallFilterAgain
    \/ /\ call = NoCall
       /\ \E t \in TokenPayloads : CallGetUserRoles(t)
    \/ /\ call = NoCall
       /\ \E t \in TokenPayloads, c \in Catalogs : CallListAgents(t, c)
    \/ \E a \in AllAgents : CallChatAccessCheck(a)
    \/ \E e \in BOOLEAN, c \in McpContexts : CallSendMessage(e, c)
    \/ Forget

----------------
(* The server: FastAPI runs every handler (async def) on one event loop,   *)
(* so a handler runs without interruption from one await to the next.      *)
(* Each action below is one such stretch of one request.                   *)

Slots == 1..MaxInFlight

Idle == [kind |-> "idle", pc |-> "idle"]

\* Tokens of the requests: one without a roles claim, an administrator, a
\* finance analyst.
ClientTokens ==
    { [preferred_username |-> "dixit@company.com", oid |-> "oid-dixit",
       email |-> "dixit@company.com"],
      [preferred_username |-> "tejas@company.com", oid |-> "oid-tejas",
       email |-> "tejas@company.com", roles |-> <<"Admin">>],
      [preferred_username |-> "rahul@company.com", sub |-> "sub-rahul",
       upn |-> "rahul@company.com", roles |-> <<"FinanceAnalyst">>] }

AdminClaims ==
    [preferred_username |-> "tejas@company.com", oid |-> "oid-tejas",
     email |-> "tejas@company.com", roles |-> <<"Admin">>]

\* the key sets the identity provider publishes over time; it never
\* publishes k9
PublishedKeySets == {{"k1"}, {"k1", "k2"}, {"k2"}}

\* tokens that fail one check each
FaultyTokens ==
    { BearerToken("garbage", "k1", "verifies", "ahead", "client_id", "tenant", AdminClaims),
      BearerToken("jwt", "k1", "forged", "ahead", "client_id", "tenant", AdminClaims),
      BearerToken("jwt", "k1", "verifies", "past", "client_id", "tenant", AdminClaims),
      BearerToken("jwt", "k1", "verifies", "ahead", "other_app", "tenant", AdminClaims),
      BearerToken("jwt", "k1", "verifies", "ahead", "client_id", "other_tenant", AdminClaims) }

\* the tokens presented: issued tokens of the clients under the first key,
\* an issued token under the rotated key and one under a key that was never
\* published, and the faulty tokens
BearerTokens ==
    {IssuedToken("k1", c) : c \in ClientTokens}
        \cup {IssuedToken("k2", AdminClaims), IssuedToken("k9", AdminClaims)}
        \cup FaultyTokens

\* the tokens the server's requests present: the clients' tokens, an expired
\* token and a token under a key that was never published
PresentedTokens ==
    {IssuedToken("k1", c) : c \in ClientTokens}
        \cup { IssuedToken("k9", AdminClaims),
               BearerToken("jwt", "k1", "verifies", "past", "client_id", "tenant",
                           AdminClaims) }

\* What azure_foundry_client.list_agents() returns.
FoundryAgents == <<Agent("a1", PayrollBot), Agent("a3", GeneralHelper)>>

\* Every document _load_config can return.
WholeDocuments == {_load_config(f) : f \in ConfigFiles}

\* null and undefined
Null == "null"

\* a ChatMessage: its id (a kind and a number), its session and its role
Message(id, session_id, role) == [id |-> id, session_id |-> session_id, role |-> role]

\* the chat backend's sessions before the browser opens: two sessions with
\* one stored message each, and the number of sessions created since
SeedStore ==
    [ history |-> ("A" :> <<Message(<<"stored", 1>>, "A", "assistant")>>)
                    @@ ("B" :> <<Message(<<"stored", 2>>, "B", "assistant")>>),
      created |-> 0 ]

\* useState(...) of ChatLayout: no sessions yet, no active session
InitialLayout == [sessions |-> <<>>, activeSession |-> Null]

\* no chat view is mounted
NoView == [component |-> "none"]

\* useState(...) of AuthProvider and the headers of axios.create(...); the
\* effect that calls initializeAuth has not run yet
InitialAuth ==
    [ pc |-> "start", isAuthenticated |-> FALSE, isLoading |-> TRUE,
      user |-> Null, account |-> Null, accessToken |-> Null, error |-> Null,
      Authorization |-> Null ]

\* __init__: self.config = self._load_config()
Init ==
    /\ config \in WholeDocuments
    /\ req = [r \in Slots |-> Idle]
    /\ call = NoCall
    /\ runs = {}
    /\ jwks_cache = ColdCache
    /\ idp = [keys |-> {"k1"}, up |-> TRUE]
    /\ layout = InitialLayout
    /\ view = NoView
    /\ pending = {}
    /\ store = SeedStore
    /\ authContext = InitialAuth

\* Depends(get_current_user) raised the 401 of validate_token: the handler
\* of the endpoint is not run
Unauthenticated(r, bearer) ==
    /\ req[r].pc = "idle"
    /\ LET auth == get_current_user(jwks_cache, idp, bearer)
       IN  /\ ~auth.claims.ok
           /\ jwks_cache' = auth.cache
           /\ req' = [req EXCEPT ![r] =
                        [kind |-> "unauthenticated", pc |-> "done", status |-> "401",
                         detail |-> auth.claims.detail]]
    /\ UNCHANGED <<config, call, runs, idp, frontend>>

\* GET /api/agents up to "await azure_foundry_client.list_agents()"
ListAgentsStart(r, bearer) ==
    /\ req[r].pc = "idle"
    /\ LET auth == get_current_user(jwks_cache, idp, bearer)
       IN  /\ auth.claims.ok
           /\ jwks_cache' = auth.cache
           /\ req' = [req EXCEPT ![r] =
                        [kind |-> "list_agents", pc |-> "await_list_agents",
                         token |-> auth.claims.payload]]
    /\ UNCHANGED <<config, call, runs, idp, frontend>>

\* GET /api/agents from the catalog's arrival to the response
ListAgentsReturn(r) ==
    /\ req[r].pc = "await_list_agents"
    /\ req' = [req EXCEPT ![r] =
                 [kind |-> "list_agents", pc |-> "done", status |-> "200",
                  agents |-> list_agents(config, req[r].token, FoundryAgents)]]
    /\ UNCHANGED <<config, call, runs, jwks_cache, idp, frontend>>

\* POST /api/chat up to "await azure_foundry_client.get_agent(...)"
ChatStart(r, bearer) ==
    /\ req[r].pc = "idle"
    /\ LET auth == get_current_user(jwks_cache, idp, bearer)
       IN  /\ auth.claims.ok
           /\ jwks_cache' = auth.cache
           /\ req' = [req EXCEPT ![r] =
                        [kind |-> "chat", pc |-> "await_get_agent",
                         user_roles |-> get_user_roles_from_token(
                                            config, auth.claims.payload),
                         decision |-> "none", invoked |-> FALSE, reloaded |-> FALSE]]
    /\ UNCHANGED <<config, call, runs, idp, frontend>>

\* POST /api/chat from the agent's arrival: the access check, then either
\* the 403 or the call azure_foundry_client.chat(agent_id, message)
ChatCheck(r, agent) ==
    /\ req[r].pc = "await_get_agent"
    /\ LET decision == chat_access_check(config, req[r].user_roles, agent)
       IN  req' = [req EXCEPT ![r] =
                     [kind |-> "chat",
                      pc |-> IF decision = "403" THEN "done" ELSE "await_chat",
                      status |-> IF decision = "403" THEN "403" ELSE "pending",
                      agent |-> agent,
                      decision |-> decision, invoked |-> (decision # "403"),
                      sent |-> [agent_id |-> agent.id],
                      reloaded |-> req[r].reloaded]]
    /\ UNCHANGED <<config, call, runs, jwks_cache, idp, frontend>>

\* POST /api/chat: the agent's reply is returned
ChatReturn(r) ==
    /\ req[r].pc = "await_chat"
    /\ req' = [req EXCEPT ![r] =
                 [kind |-> "chat", pc |-> "done", status |-> "200",
                  decision |-> req[r].decision, invoked |-> req[r].invoked]]
    /\ UNCHANGED <<config, call, runs, jwks_cache, idp, frontend>>

\* POST /api/chat/mcp up to the session lookup: get_current_user and
\* get_mcp_context have validated the token
McpChatStart(r, bearer) ==
    /\ req[r].pc = "idle"
    /\ LET auth == get_current_user(jwks_cache, idp, bearer)
       IN  /\ auth.claims.ok
           /\ jwks_cache' = auth.cache
           /\ req' = [req EXCEPT ![r] =
                        [kind |-> "mcp_chat", pc |-> "await_session",
                         status |-> "pending", bearer |-> bearer,
                         decision |-> "none", invoked |-> FALSE]]
    /\ UNCHANGED <<config, call, runs, idp, frontend>>

\* POST /api/chat/mcp: the session names the agent and
\* mcp_client.send_message_to_agent starts a run of it
McpChatSend(r, agent) ==
    /\ req[r].pc = "await_session"
    /\ LET current_user == UserProfile(req[r].bearer.claims)
           mcp_context == get_mcp_context(req[r].bearer)
       IN  req' = [req EXCEPT ![r] =
                     [kind |-> "mcp_chat", pc |-> "await_agent", status |-> "pending",
                      bearer |-> req[r].bearer, agent |-> agent,
                      decision |-> "none", invoked |-> TRUE,
                      sent |-> send_message_to_agent(agent.id, current_user.azure_id,
                                                     current_user.email,
                                                     mcp_context.oauth_token)]]
    /\ UNCHANGED <<config, call, runs, jwks_cache, idp, frontend>>

\* POST /api/chat/mcp: the run ended with a message, stopped for OAuth
\* consent, or an exception was raised
McpChatReturn(r, outcome) ==
    /\ req[r].pc = "await_agent"
    /\ req' = [req EXCEPT ![r] =
                 [kind |-> "mcp_chat", pc |-> "done", status |-> outcome,
                  decision |-> req[r].decision, invoked |-> req[r].invoked]]
    /\ runs' = IF outcome = "consent_required" THEN runs \cup {req[r].agent.id} ELSE runs
    /\ UNCHANGED <<config, call, jwks_cache, idp, frontend>>

\* mutant of ConsentCallback: callback.consented is not looked at
ConsentCallbackAnyAnswer(r, bearer, consented, agent) ==
    /\ req[r].pc = "idle"
    /\ LET auth == get_current_user(jwks_cache, idp, bearer)
       IN  /\ auth.claims.ok
           /\ jwks_cache' = auth.cache
    /\ req' = [req EXCEPT ![r] =
                 IF agent.id \in runs
                 THEN [kind |-> "consent_callback", pc |-> "await_continue",
                       status |-> "pending",
                       decision |-> "none", invoked |-> TRUE,
                       sent |-> continue_after_consent(agent.id)]
                 ELSE [kind |-> "consent_callback", pc |-> "done",
                       status |-> "500",
                       decision |-> "none", invoked |-> FALSE]]
    /\ runs' = runs \ {agent.id}
    /\ UNCHANGED <<config, call, idp, frontend>>

\* POST /api/chat/mcp/consent-callback for a run of the agent:
\* consent_denied is returned, or mcp_client.continue_after_consent submits
\* to the run, which resumes it if it is waiting for consent and raises
\* (500) if it is not
ConsentCallback(r, bearer, consented, agent) ==
    /\ req[r].pc = "idle"
    /\ LET auth == get_current_user(jwks_cache, idp, bearer)
       IN  /\ auth.claims.ok
           /\ jwks_cache' = auth.cache
    /\ req' = [req EXCEPT ![r] =
                 IF ~consented
                 THEN [kind |-> "consent_callback", pc |-> "done",
                       status |-> "consent_denied",
                       decision |-> "none", invoked |-> FALSE]
                 ELSE IF agent.id \in runs
                 THEN [kind |-> "consent_callback", pc |-> "await_continue",
                       status |-> "pending",
                       decision |-> "none", invoked |-> TRUE,
                       sent |-> continue_after_consent(agent.id)]
                 ELSE [kind |-> "consent_callback", pc |-> "done",
                       status |-> "500",
                       decision |-> "none", invoked |-> FALSE]]
    /\ runs' = IF consented THEN runs \ {agent.id} ELSE runs
    /\ UNCHANGED <<config, call, idp, frontend>>

\* POST /api/chat/mcp/consent-callback: the resumed run ended
ConsentReturn(r, outcome) ==
    /\ req[r].pc = "await_continue"
    /\ req' = [req EXCEPT ![r] =
                 [kind |-> "consent_callback", pc |-> "done", status |-> outcome,
                  decision |-> req[r].decision, invoked |-> req[r].invoked]]
    /\ UNCHANGED <<config, call, runs, jwks_cache, idp, frontend>>

\* mutant of ReloadRbacConfig: the Admin check is left out
ReloadRbacConfigUnchecked(r, bearer, file) ==
    /\ req[r].pc = "idle"
    /\ LET auth == get_current_user(jwks_cache, idp, bearer)
       IN  /\ auth.claims.ok
           /\ jwks_cache' = auth.cache
    /\ config' = reload_config(config, file)
    /\ req' = [s \in Slots |->
                 IF s = r
                 THEN [kind |-> "rbac_reload", pc |-> "done", status |-> "200"]
                 ELSE IF req[s].pc = "await_get_agent" /\ config' # config
                      THEN [req[s] EXCEPT !.reloaded = TRUE]
                      ELSE req[s]]
    /\ UNCHANGED <<call, runs, idp, frontend>>

\* POST /api/rbac/reload: the whole handler (it awaits nothing).  A chat
\* request waiting for get_agent notes that the document changed under it.
ReloadRbacConfig(r, bearer, file) ==
    /\ req[r].pc = "idle"
    /\ LET auth == get_current_user(jwks_cache, idp, bearer)
       IN  /\ auth.claims.ok
           /\ jwks_cache' = auth.cache
           /\ LET user_roles == get_user_roles_from_token(config, auth.claims.payload)
                  admin == "Admin" \in Elems(user_roles)
                  reloaded == IF admin THEN reload_config(config, file) ELSE config
              IN  /\ config' = reloaded
                  /\ req' = [s \in Slots |->
                               IF s = r
                               THEN [kind |-> "rbac_reload", pc |-> "done",
                                     status |-> IF admin THEN "200" ELSE "403"]
                               ELSE IF req[s].pc = "await_get_agent"
                                       /\ reloaded # config
                                    THEN [req[s] EXCEPT !.reloaded = TRUE]
                                    ELSE req[s]]
    /\ UNCHANGED <<call, runs, idp, frontend>>

\* the response has been sent; the slot is free again
Complete(r) ==
    /\ req[r].pc = "done"
    /\ req' = [req EXCEPT ![r] = Idle]
    /\ UNCHANGED <<config, call, runs, jwks_cache, idp, frontend>>

Next ==
    \/ \E r \in Slots, b \in PresentedTokens : Unauthenticated(r, b)
    \/ \E r \in Slots, b \in PresentedTokens : ListAgentsStart(r, b)
    \/ \E r \in Slots : ListAgentsReturn(r)
    \/ \E r \in Slots, b \in PresentedTokens : ChatStart(r, b)
    \/ \E r \in Slots, a \in Elems(FoundryAgents) : ChatCheck(r, a)
    \/ \E r \in Slots : ChatReturn(r)
    \/ \E r \in Slots, b \in PresentedTokens : McpChatStart(r, b)
    \/ \E r \in Slots, a \in Elems(FoundryAgents) : McpChatSend(r, a)
    \/ \E r \in Slots, o \in {"success", "consent_required", "500"} : McpChatReturn(r, o)
    \/ \E r \in Slots, b \in PresentedTokens, c \in BOOLEAN, a \in Elems(FoundryAgents) :
           ConsentCallback(r, b, c, a)
    \/ \E r \in Slots, o \in {"success", "500"} : ConsentReturn(r, o)
    \/ \E r \in Slots, b \in PresentedTokens, f \in ConfigFiles : ReloadRbacConfig(r, b, f)
    \/ \E r \in Slots : Complete(r)

Spec == Init /\ [][Next]_vars

\* one AgentAccessControl object called directly, its configuration fixed
SpecEval == Init /\ [][EvalNext]_vars

----------------------------------------------------------------------------
(* The token validator called on its own: tokens are validated while the   *)
(* identity provider rotates its keys, stops answering and answers again,  *)
(* and the cached key set reaches its TTL.                                 *)

\* auth_handler.validate_token(token)
ValidateToken(token) ==
    /\ call = NoCall
    /\ LET signing_key == get_signing_key_from_jwt(jwks_cache, idp, token)
       IN  /\ jwks_cache' = signing_key.cache
           /\ call' = [ op |-> "validate_token", token |-> token,
                        cache_before |-> jwks_cache, provider |-> idp,
                        forced |-> signing_key.forced,
                        result |-> validate_token(token, signing_key) ]
    /\ UNCHANGED <<config, req, runs, idp, frontend>>

\* the identity provider publishes another key set
RotateKeys(keys) ==
    /\ keys # idp.keys
    /\ idp' = [idp EXCEPT !.keys = keys]
    /\ UNCHANGED <<config, req, call, runs, jwks_cache, frontend>>

\* the identity provider stops answering
IdpGoesDown ==
    /\ idp.up
    /\ idp' = [idp EXCEPT !.up = FALSE]
    /\ UNCHANGED <<config, req, call, runs, jwks_cache, frontend>>

\* the identity provider answers again
IdpComesBack ==
    /\ ~idp.up
    /\ idp' = [idp EXCEPT !.up = TRUE]
    /\ UNCHANGED <<config, req, call, runs, jwks_cache, frontend>>

\* the cached key set reaches its TTL
CacheExpires ==
    /\ jwks_cache.fresh
    /\ jwks_cache' = [jwks_cache EXCEPT !.fresh = FALSE]
    /\ UNCHANGED <<config, req, call, runs, idp, frontend>>

AuthNext ==
    \/ \E t \in BearerTokens : ValidateToken(t)
    \/ \E ks \in PublishedKeySets : RotateKeys(ks)
    \/ IdpGoesDown
    \/ IdpComesBack
    \/ CacheExpires
    \/ Forget

SpecAuth == Init /\ [][AuthNext]_vars

----------------------------------------------------------------------------
(* The wait of continue_after_consent on the upstream run, one step per    *)
(* poll.  The method takes run_id and thread_id only; the time its caller  *)
(* allows is recorded beside the call to state the properties of the wait. *)

\* run.status as the agent service reports it
RunStatuses == {"queued", "in_progress", "requires_action", "completed", "failed"}

\* while run.status in ["in_progress", "queued"]
StillRunning(status) == status \in {"in_progress", "queued"}

RunIds == {"run_1", "run_2"}

\* the times, in seconds, callers allow
Deadlines == 1..MaxDeadline

\* run = submit_tool_outputs_to_run(thread_id, run_id, tool_outputs=[])
ContinueAfterConsent(run_id, deadline, status) ==
    /\ call = NoCall
    /\ call' = [ op |-> "continue_after_consent", run_id |-> run_id,
                 deadline |-> deadline, elapsed |-> 0,
                 status |-> status, pc |-> "waiting" ]
    /\ UNCHANGED <<config, req, runs, jwks_cache, idp, frontend>>

\* one turn of the loop: await asyncio.sleep(1); run = get_run(...)
GetRun(status) ==
    /\ call.op = "continue_after_consent"
    /\ call.pc = "waiting"
    /\ StillRunning(call.status)
    /\ call.elapsed < MaxPolls
    /\ call' = [call EXCEPT !.elapsed = @ + 1, !.status = status]
    /\ UNCHANGED <<config, req, runs, jwks_cache, idp, frontend>>

\* the loop is left: list_messages, then the latest assistant message is
\* returned, or the IndexError of an empty list is logged and raised again
ContinueReturns(has_message) ==
    /\ call.op = "continue_after_consent"
    /\ call.pc = "waiting"
    /\ ~StillRunning(call.status)
    /\ call' = [call EXCEPT !.pc = IF has_message THEN "returned" ELSE "raised"]
    /\ UNCHANGED <<config, req, runs, jwks_cache, idp, frontend>>

ConsentNext ==
    \/ \E id \in RunIds, d \in Deadlines, st \in RunStatuses :
           ContinueAfterConsent(id, d, st)
    \/ \E st \in RunStatuses : GetRun(st)
    \/ \E m \in BOOLEAN : ContinueReturns(m)
    \/ (call.op = "continue_after_consent" /\ call.pc # "waiting" /\ Forget)

SpecConsent == Init /\ [][ConsentNext]_vars

----------------------------------------------------------------------------
(* The browser: AuthProvider (contexts/AuthContext) and the ApiClient's    *)
(* Authorization header.  Each action is one stretch of initializeAuth,    *)
(* login or logout between two awaits.                                     *)

\* the accounts MSAL can hold, and the access tokens it can issue
Accounts == {"dixit@company.com", "rahul@company.com"}
AccessTokens == {"token_1", "token_2"}

\* apiClient.setAuthToken(token)
setAuthToken(a, token) == [a EXCEPT !.Authorization = token]

\* apiClient.clearAuthToken()
clearAuthToken(a) == [a EXCEPT !.Authorization = Null]

\* initializeAuth: await msalInstance.initialize() has returned or thrown;
\* getAllAccounts() gives the cached account, if there is one
MsalInitialized(ok, cached) ==
    /\ authContext.pc = "start"
    /\ authContext' =
          IF ~ok
          THEN [authContext EXCEPT !.error = "Failed to initialize authentication",
                                   !.isLoading = FALSE, !.pc = "idle"]
          ELSE IF cached = Null
          THEN [authContext EXCEPT !.isLoading = FALSE, !.pc = "idle"]
          ELSE [authContext EXCEPT !.account = cached, !.pc = "init_token"]
    /\ UNCHANGED <<backend, layout, view, pending, store>>

\* initializeAuth: acquireTokenSilent has returned a token or null
SilentTokenReturns(token) ==
    /\ authContext.pc = "init_token"
    /\ authContext' =
          IF token = Null
          THEN [authContext EXCEPT !.isLoading = FALSE, !.pc = "idle"]
          ELSE setAuthToken([authContext EXCEPT !.accessToken = token,
                                                !.pc = "init_profile"], token)
    /\ UNCHANGED <<backend, layout, view, pending, store>>

\* initializeAuth: apiClient.getCurrentUser() has returned or thrown
InitProfileReturns(ok) ==
    /\ authContext.pc = "init_profile"
    /\ authContext' =
          IF ok
          THEN [authContext EXCEPT !.user = authContext.account,
                                   !.isAuthenticated = TRUE,
                                   !.isLoading = FALSE, !.pc = "idle"]
          ELSE [authContext EXCEPT !.isLoading = FALSE, !.pc = "idle"]
    /\ UNCHANGED <<backend, layout, view, pending, store>>

\* login up to "await msalInstance.loginPopup(loginRequest)" (the Login page
\* is shown when nobody is authenticated, its button enabled when not loading)
login ==
    /\ authContext.pc = "idle"
    /\ ~authContext.isAuthenticated
    /\ ~authContext.isLoading
    /\ authContext' = [authContext EXCEPT !.isLoading = TRUE, !.error = Null,
                                          !.pc = "login_popup"]
    /\ UNCHANGED <<backend, layout, view, pending, store>>

\* login: the popup has returned an account and a token, or has thrown
LoginPopupReturns(ok, account, token) ==
    /\ authContext.pc = "login_popup"
    /\ authContext' =
          IF ok
          THEN setAuthToken([authContext EXCEPT !.account = account,
                                                !.accessToken = token,
                                                !.pc = "login_profile"], token)
          ELSE [authContext EXCEPT !.error = "Login failed",
                                   !.isLoading = FALSE, !.pc = "idle"]
    /\ UNCHANGED <<backend, layout, view, pending, store>>

\* login: apiClient.getCurrentUser() has returned or thrown
LoginProfileReturns(ok) ==
    /\ authContext.pc = "login_profile"
    /\ authContext' =
          IF ok
          THEN [authContext EXCEPT !.user = authContext.account,
                                   !.isAuthenticated = TRUE,
                                   !.isLoading = FALSE, !.pc = "idle"]
          ELSE [authContext EXCEPT !.error = "Login failed",
                                   !.isLoading = FALSE, !.pc = "idle"]
    /\ UNCHANGED <<backend, layout, view, pending, store>>

\* the state after the statements of logout that follow the popup
LoggedOut(a) ==
    clearAuthToken([a EXCEPT !.isAuthenticated = FALSE, !.user = Null,
                             !.account = Null, !.accessToken = Null])

\* logout up to "await msalInstance.logoutPopup({ account })" (the Sign out
\* button is in the sidebar, shown to an authenticated user); without an
\* account the popup is skipped
logout ==
    /\ authContext.pc = "idle"
    /\ authContext.isAuthenticated
    /\ authContext' =
          IF authContext.account # Null
          THEN [authContext EXCEPT !.isLoading = TRUE, !.pc = "logout_popup"]
          ELSE LoggedOut(authContext)
    /\ UNCHANGED <<backend, layout, view, pending, store>>

\* logout: the popup has returned or thrown
LogoutPopupReturns(ok) ==
    /\ authContext.pc = "logout_popup"
    /\ authContext' =
          IF ok
          THEN [LoggedOut(authContext) EXCEPT !.isLoading = FALSE, !.pc = "idle"]
          ELSE [authContext EXCEPT !.error = "Logout failed",
                                   !.isLoading = FALSE, !.pc = "idle"]
    /\ UNCHANGED <<backend, layout, view, pending, store>>

AuthProviderNext ==
    \/ \E ok \in BOOLEAN, cached \in Accounts \cup {Null} : MsalInitialized(ok, cached)
    \/ \E token \in AccessTokens \cup {Null} : SilentTokenReturns(token)
    \/ \E ok \in BOOLEAN : InitProfileReturns(ok)
    \/ login
    \/ \E ok \in BOOLEAN, account \in Accounts, token \in AccessTokens :
           LoginPopupReturns(ok, account, token)
    \/ \E ok \in BOOLEAN : LoginProfileReturns(ok)
    \/ logout
    \/ \E ok \in BOOLEAN : LogoutPopupReturns(ok)

SpecAuthProvider == Init /\ [][AuthProviderNext]_vars

----------------------------------------------------------------------------
(* The browser: ChatLayout with its chat view (ChatArea, in the two        *)
(* versions the file holds) and the stand-alone Chat view.  JavaScript     *)
(* runs a handler, or the continuation of an await, to its next await      *)
(* without interruption; React then renders the batched state updates and  *)
(* runs the effects whose dependencies changed.  Each action below is one  *)
(* such stretch with its render and effects.  A handler that awaits keeps  *)
(* the props and state of the render it was called in: what it reads after *)
(* the await is recorded with the call in flight.                          *)

Components == {"ChatArea", "ChatAreaSecond", "Chat"}

\* ids of the sessions the chat backend creates, in the order of creation
NewSessionIds == <<"N1", "N2", "N3", "N4">>

\* the API calls in flight; the fields after op are what the continuation
\* reads when the call returns
CreateSessionCall(tempId, sessions) ==
    [ op |-> "createSession", session_id |-> Null, tempId |-> tempId,
      sessions |-> sessions, activeSession |-> Null, isMounted |-> TRUE ]

SendMessageCall(session_id, tempId) ==
    [ op |-> "sendMessage", session_id |-> session_id, tempId |-> tempId,
      sessions |-> <<>>, activeSession |-> Null, isMounted |-> TRUE ]

GetSessionHistoryCall(session_id) ==
    [ op |-> "getSessionHistory", session_id |-> session_id, tempId |-> <<"none", 0>>,
      sessions |-> <<>>, activeSession |-> Null, isMounted |-> TRUE ]

DeleteSessionCall(session_id, sessions, activeSession) ==
    [ op |-> "deleteSession", session_id |-> session_id, tempId |-> <<"none", 0>>,
      sessions |-> sessions, activeSession |-> activeSession, isMounted |-> TRUE ]

\* prev.filter(m => m.id !== id)
Without(messages, id) == SelectSeq(messages, LAMBDA m : m.id # id)

\* the calls of one operation that are in flight
InFlight(op) == {t \in pending : t.op = op}

\* the cleanup of ChatArea's effect: isMounted = false in every
\* loadMessages that is still waiting
Cleanup(calls) ==
    { IF t.op = "getSessionHistory" THEN [t EXCEPT !.isMounted = FALSE] ELSE t :
          t \in calls }

\* the effect on [activeSession?.id] (ChatArea) or [activeSession]
\* (second version), run after a render in which the active session went
\* from old to new; v and calls are the view and the calls in flight
SessionEffect(v, calls, old, new) ==
    IF old = new THEN [view |-> v, pending |-> calls]
    ELSE IF v.component = "ChatArea"
    THEN IF v.skipNextFetchRef
         THEN [ view |-> [v EXCEPT !.skipNextFetchRef = FALSE],
                pending |-> Cleanup(calls) ]
         ELSE IF new # Null
         THEN [ view |-> [v EXCEPT !.loading = TRUE, !.messages = <<>>],
                pending |-> Cleanup(calls) \cup {GetSessionHistoryCall(new)} ]
         ELSE [ view |-> [v EXCEPT !.messages = <<>>],
                pending |-> Cleanup(calls) ]
    ELSE IF new # Null
         THEN [view |-> v, pending |-> calls \cup {GetSessionHistoryCall(new)}]
         ELSE [view |-> [v EXCEPT !.messages = <<>>], pending |-> calls]

\* ChatLayout is rendered with one version of ChatArea; fetchSessions has
\* filled the sidebar
MountChatLayout(component) ==
    /\ view = NoView
    /\ component \in {"ChatArea", "ChatAreaSecond"}
    /\ layout' = [sessions |-> <<"A", "B">>, activeSession |-> Null]
    /\ view' = IF component = "ChatArea"
               THEN [ component |-> component, messages |-> <<>>, loading |-> FALSE,
                      skipNextFetchRef |-> FALSE, clock |-> 0 ]
               ELSE [ component |-> component, messages |-> <<>>, loading |-> FALSE,
                      clock |-> 0 ]
    /\ UNCHANGED <<backend, pending, store, authContext>>

\* Chat is rendered for an agent; initializeChat has created its session,
\* or has failed to
MountChat(ok) ==
    /\ view = NoView
    /\ LET id == NewSessionIds[store.created + 1]
       IN  /\ view' = [ component |-> "Chat", session |-> IF ok THEN id ELSE Null,
                        messages |-> <<>>, isSending |-> FALSE, clock |-> 0 ]
           /\ store' = IF ok
                       THEN [ history |-> store.history @@ (id :> <<>>),
                              created |-> store.created + 1 ]
                       ELSE store
    /\ UNCHANGED <<backend, layout, pending, authContext>>

\* ChatArea.handleSend up to its first await.  The first version shows the
\* optimistic message and sets loading before it creates the session; the
\* second version creates the session first.
handleSend ==
    /\ view.component \in {"ChatArea", "ChatAreaSecond"}
    /\ ~view.loading
    /\ view.clock < MaxSends
    /\ Cardinality(pending) < MaxPending
    /\ LET currentSessionId == layout.activeSession
           tempId == <<"temp", view.clock + 1>>
           tempUserMessage ==
               Message(tempId,
                       IF currentSessionId = Null THEN "temp" ELSE currentSessionId,
                       "user")
           shown == [view EXCEPT !.messages = Append(@, tempUserMessage),
                                 !.loading = TRUE, !.clock = @ + 1]
       IN  IF currentSessionId # Null
           THEN /\ view' = shown
                /\ pending' = pending \cup {SendMessageCall(currentSessionId, tempId)}
           ELSE IF view.component = "ChatArea"
           THEN /\ view' = shown
                /\ pending' = pending \cup {CreateSessionCall(tempId, layout.sessions)}
           ELSE /\ view' = view
                /\ pending' = pending
                       \cup {CreateSessionCall(<<"none", 0>>, layout.sessions)}
    /\ UNCHANGED <<backend, layout, store, authContext>>

\* ChatLayout.handleSessionCreated, called with the sessions of the render
\* the handler was created in
handleSessionCreated(session, sessions) ==
    [sessions |-> <<session>> \o sessions, activeSession |-> session]

\* ChatArea.handleSend: api.createSession has returned or thrown
CreateSessionReturns(apiCall, ok) ==
    /\ apiCall \in InFlight("createSession")
    /\ ok => store.created < MaxCreated
    /\ LET id == NewSessionIds[store.created + 1]
           rest == pending \ {apiCall}
       IN  IF ~ok
           THEN /\ view' = IF view.component = "ChatArea"
                           THEN [view EXCEPT !.messages = Without(@, apiCall.tempId),
                                             !.loading = FALSE]
                           ELSE view
                /\ pending' = rest
                /\ UNCHANGED <<layout, store>>
           ELSE /\ store' = [ history |-> store.history @@ (id :> <<>>),
                              created |-> store.created + 1 ]
                /\ layout' = handleSessionCreated(id, apiCall.sessions)
                /\ IF view.component = "ChatArea"
                   THEN LET effect ==
                                SessionEffect(
                                    [view EXCEPT !.skipNextFetchRef = TRUE],
                                    rest \cup {SendMessageCall(id, apiCall.tempId)},
                                    layout.activeSession, id)
                        IN  /\ view' = effect.view
                            /\ pending' = effect.pending
                   ELSE LET tempId == <<"temp", view.clock + 1>>
                            effect ==
                                SessionEffect(
                                    [view EXCEPT
                                        !.messages = Append(@, Message(tempId, id, "user")),
                                        !.loading = TRUE, !.clock = @ + 1],
                                    rest \cup {SendMessageCall(id, tempId)},
                                    layout.activeSession, id)
                        IN  /\ view' = effect.view
                            /\ pending' = effect.pending
    /\ UNCHANGED <<backend, authContext>>

\* Chat.handleSendMessage up to its await
handleSendMessage ==
    /\ view.component = "Chat"
    /\ view.session # Null
    /\ ~view.isSending
    /\ view.clock < MaxSends
    /\ LET tempId == <<"temp", view.clock + 1>>
       IN  /\ view' = [view EXCEPT
                          !.messages = Append(@, Message(tempId, view.session, "user")),
                          !.isSending = TRUE, !.clock = @ + 1]
           /\ pending' = pending \cup {SendMessageCall(view.session, tempId)}
    /\ UNCHANGED <<backend, layout, store, authContext>>

\* mutant of SendFailed: the displayed list is emptied
SendFailedClearsList(v, tempId) ==
    IF v.component = "Chat"
    THEN [v EXCEPT !.messages = <<>>, !.isSending = FALSE]
    ELSE [v EXCEPT !.messages = <<>>, !.loading = FALSE]

\* the catch and finally blocks of handleSend and handleSendMessage
SendFailed(v, tempId) ==
    IF v.component = "Chat"
    THEN [v EXCEPT !.messages = Without(@, tempId), !.isSending = FALSE]
    ELSE [v EXCEPT !.messages = Without(@, tempId), !.loading = FALSE]

\* handleSend and handleSendMessage after "await api.sendMessage": the
\* optimistic message is replaced by the user message and the reply
SendSucceeded(v, apiCall) ==
    LET n == apiCall.tempId[2]
        reply == Message(<<"reply", n>>, apiCall.session_id, "assistant")
        sent == Message(IF v.component = "Chat" THEN <<"user", n>> ELSE reply.id,
                        apiCall.session_id, "user")
        messages == Without(v.messages, apiCall.tempId) \o <<sent, reply>>
    IN  IF v.component = "Chat"
        THEN [v EXCEPT !.messages = messages, !.isSending = FALSE]
        ELSE [v EXCEPT !.messages = messages, !.loading = FALSE]

\* api.sendMessage has returned the reply, which the backend has stored
\* with the user's message, or has thrown (as it does for a session that
\* no longer exists)
SendMessageReturns(apiCall, ok) ==
    /\ apiCall \in InFlight("sendMessage")
    /\ ok => apiCall.session_id \in DOMAIN store.history
    /\ pending' = pending \ {apiCall}
    /\ IF ok
       THEN LET n == apiCall.tempId[2]
            IN  /\ view' = SendSucceeded(view, apiCall)
                /\ store' = [store EXCEPT !.history[apiCall.session_id] =
                                @ \o << Message(<<"user", n>>, apiCall.session_id, "user"),
                                        Message(<<"reply", n>>, apiCall.session_id,
                                                "assistant") >>]
       ELSE /\ view' = SendFailed(view, apiCall.tempId)
            /\ UNCHANGED store
    /\ UNCHANGED <<backend, layout, authContext>>

\* ChatLayout.handleSelectSession: a session of the sidebar is clicked
handleSelectSession(session) ==
    /\ view.component \in {"ChatArea", "ChatAreaSecond"}
    /\ session \in Elems(layout.sessions)
    /\ session # layout.activeSession
    /\ Cardinality(pending) < MaxPending
    /\ layout' = [layout EXCEPT !.activeSession = session]
    /\ LET effect == SessionEffect(view, pending, layout.activeSession, session)
       IN  /\ view' = effect.view
           /\ pending' = effect.pending
    /\ UNCHANGED <<backend, store, authContext>>

\* ChatLayout.handleNewChat
handleNewChat ==
    /\ view.component \in {"ChatArea", "ChatAreaSecond"}
    /\ layout.activeSession # Null
    /\ layout' = [layout EXCEPT !.activeSession = Null]
    /\ LET effect == SessionEffect(view, pending, layout.activeSession, Null)
       IN  /\ view' = effect.view
           /\ pending' = effect.pending
    /\ UNCHANGED <<backend, store, authContext>>

\* loadMessages (ChatArea) and fetchMessages (second version) after
\* "await api.getSessionHistory": the first version does nothing once its
\* effect was cleaned up
GetSessionHistoryReturns(apiCall, ok) ==
    /\ apiCall \in InFlight("getSessionHistory")
    /\ ok => apiCall.session_id \in DOMAIN store.history
    /\ pending' = pending \ {apiCall}
    /\ LET messages == IF ok THEN store.history[apiCall.session_id] ELSE <<>>
       IN  view' = IF view.component = "ChatArea"
                   THEN IF apiCall.isMounted
                        THEN [view EXCEPT !.messages = messages, !.loading = FALSE]
                        ELSE view
                   ELSE [view EXCEPT !.messages = messages]
    /\ UNCHANGED <<backend, layout, store, authContext>>

\* ChatLayout.handleDeleteSession up to "await api.deleteSession"
handleDeleteSession(sessionId) ==
    /\ view.component \in {"ChatArea", "ChatAreaSecond"}
    /\ sessionId \in Elems(layout.sessions)
    /\ Cardinality(pending) < MaxPending
    /\ pending' = pending
           \cup {DeleteSessionCall(sessionId, layout.sessions, layout.activeSession)}
    /\ UNCHANGED <<backend, layout, view, store, authContext>>

\* ChatLayout.handleDeleteSession: api.deleteSession has returned, or has
\* thrown (as it does for a session that no longer exists)
DeleteSessionReturns(apiCall, ok) ==
    /\ apiCall \in InFlight("deleteSession")
    /\ ok => apiCall.session_id \in DOMAIN store.history
    /\ IF ~ok
       THEN /\ pending' = pending \ {apiCall}
            /\ UNCHANGED <<layout, view, store>>
       ELSE LET activeSession == IF apiCall.activeSession = apiCall.session_id
                                 THEN Null
                                 ELSE layout.activeSession
                effect == SessionEffect(view, pending \ {apiCall},
                                        layout.activeSession, activeSession)
            IN  /\ store' = [store EXCEPT !.history =
                                [s \in DOMAIN store.history \ {apiCall.session_id} |->
                                    store.history[s]]]
                /\ layout' =
                      [ sessions |-> SelectSeq(apiCall.sessions,
                                               LAMBDA s : s # apiCall.session_id),
                        activeSession |-> activeSession ]
                /\ view' = effect.view
                /\ pending' = effect.pending
    /\ UNCHANGED <<backend, authContext>>

BrowserNext ==
    \/ \E c \in Components : MountChatLayout(c)
    \/ \E ok \in BOOLEAN : MountChat(ok)
    \/ handleSend
    \/ \E apiCall \in pending, ok \in BOOLEAN : CreateSessionReturns(apiCall, ok)
    \/ handleSendMessage
    \/ \E apiCall \in pending, ok \in BOOLEAN : SendMessageReturns(apiCall, ok)
    \/ \E s \in Elems(layout.sessions) : handleSelectSession(s)
    \/ handleNewChat
    \/ \E apiCall \in pending, ok \in BOOLEAN : GetSessionHistoryReturns(apiCall, ok)
    \/ \E s \in Elems(layout.sessions) : handleDeleteSession(s)
    \/ \E apiCall \in pending, ok \in BOOLEAN : DeleteSessionReturns(apiCall, ok)

\* the browser is opened against a server that serves its built-in policy
BrowserInit == Init /\ config = _get_default_config

SpecBrowser == BrowserInit /\ [][BrowserNext]_vars

----------------------------------------------------------------------------
(* Vocabulary of the properties.                                           *)

\* the document's role_permissions and its per-agent overrides
RolePermissions(doc) == Get(doc, "role_permissions", EmptyDict)

ResourceOverrides(doc) == Get(Get(doc, "agent_metadata", EmptyDict), "agents", EmptyDict)

RequiredRoles(doc, name) == Elems(Get(ResourceOverrides(doc)[name], "required_roles", <<>>))

\* the role is defined in the document with allow_all set
HasAllowAll(doc, role) ==
    /\ role \in DOMAIN RolePermissions(doc)
    /\ Get(RolePermissions(doc)[role], "allow_all", FALSE)

\* the patterns the document configures for the role
PatternsOf(doc, role) ==
    IF role \in DOMAIN RolePermissions(doc)
    THEN Elems(Get(RolePermissions(doc)[role], "agent_patterns", <<>>))
    ELSE {}

HasNoRoles(token) == "roles" \notin DOMAIN token \/ token.roles = <<>>

----------------------------------------------------------------------------
(* Properties of the evaluator, checked under SpecEval.                    *)

\* C1: for a resource name that has an explicit override, can_access_agent
\* is true exactly when the role list shares a role with the override's
\* required_roles, whatever the roles' patterns match.
C1_OverrideDecides ==
    (call.op = "can_access_agent" /\ call.agent_name \in DOMAIN ResourceOverrides(config))
        => (call.result
              <=> Elems(call.user_roles) \cap RequiredRoles(config, call.agent_name) # {})

\* C6: if the role list contains a role whose allow_all is true,
\* can_access_agent returns true for every name, the empty name and
\* non-ASCII names included.
C6_AllowAllGrantsEveryName ==
    (call.op = "can_access_agent"
        /\ \E role \in Elems(call.user_roles) : HasAllowAll(config, role))
        => call.result = TRUE

\* C6 witness: an allow_all role, listed after an unknown role, was asked
\* about the empty name and got access
C6_Witness ==
    /\ config = WildcardConfigJson
    /\ call.op = "can_access_agent"
    /\ call.user_roles = <<"Guest", "Admin">>
    /\ call.agent_name = NoName
    /\ call.result = TRUE

\* C7 (as claimed): for a name without an override, can_access_agent is true
\* iff some role of the list has allow_all set or has a configured pattern
\* that occurs, case-insensitively, as a substring of the name.
C7_SubstringOnly ==
    (call.op = "can_access_agent" /\ call.agent_name \notin DOMAIN ResourceOverrides(config))
        => (call.result
              <=> \E role \in Elems(call.user_roles) :
                      \/ HasAllowAll(config, role)
                      \/ \E p \in PatternsOf(config, role) :
                             Contains(Lower(call.agent_name), Lower(p)))

\* C7 (amended): for a name without an override, can_access_agent is true
\* iff some role of the list has allow_all set or has a configured pattern
\* that is the wildcard "*" or occurs, case-insensitively, as a substring of
\* the name; the order of the roles does not matter and with no such role
\* the decision is deny.
C7_SubstringOrWildcard ==
    (call.op = "can_access_agent" /\ call.agent_name \notin DOMAIN ResourceOverrides(config))
        => (call.result
              <=> \E role \in Elems(call.user_roles) :
                      \/ HasAllowAll(config, role)
                      \/ \E p \in PatternsOf(config, role) :
                             p = Star \/ Contains(Lower(call.agent_name), Lower(p)))

\* C7 witness: an upper-case pattern of the second role matched an
\* upper-case name that has no override
C7_Witness ==
    /\ config = AccentConfigJson
    /\ call.op = "can_access_agent"
    /\ call.user_roles = <<"BasicUser", "FinanceAnalyst">>
    /\ call.agent_name = BudgetPlanner
    /\ call.result = TRUE

\* C8: filter_agents_by_access returns exactly the entries of its input for
\* which can_access_agent holds, in their input order, and filtering its
\* output again for the same roles returns the output unchanged.
C8_FilterSelectsInOrder ==
    call.op = "filter_agents_by_access"
        => /\ call.result =
                  SelectSeq(call.agents,
                            LAMBDA a : can_access_agent(config, call.user_roles,
                                                        AgentNameOf(a)))
           /\ Elems(call.result) \subseteq Elems(call.agents)
           /\ call.again => call.result = call.agents

\* C8 witness: a catalog of two agents was filtered down to its second
\* agent, and the result was filtered again
C8_Witness ==
    /\ call.op = "filter_agents_by_access"
    /\ call.again
    /\ Len(call.first) = 2
    /\ call.agents = <<call.first[2]>>
    /\ call.result = call.agents

C10_DefaultRoleWhenNoRoles ==
    /\ (call.op = "get_user_roles_from_token" /\ HasNoRoles(call.token))
          => /\ Len(call.result) = 1
             /\ "default_role" \in DOMAIN config => call.result = <<config.default_role>>
    /\ (call.op = "chat" /\ HasNoRoles(call.token) /\ "default_role" \in DOMAIN config)
          => call.result = chat_access_check(config, <<config.default_role>>, call.agent)

\* C10 witness: a token with an empty roles claim got the default role of a
\* document whose default is not BasicUser
C10_Witness ==
    /\ config = AccentConfigJson
    /\ call.op = "get_user_roles_from_token"
    /\ "roles" \in DOMAIN call.token
    /\ call.token.roles = <<>>
    /\ call.result = <<"FinanceAnalyst">>

\* C3: under one document, an agent of the catalog that list_agents did not
\* return for an identity is denied (403) by the chat handler's check for
\* the same identity.
C3_UnlistedIsDenied ==
    [][ ( /\ call.op = "list_agents"
          /\ call'.op = "chat"
          /\ config' = config
          /\ call'.token = call.token
          /\ call'.agent \in Elems(call.agents)
          /\ call'.agent \notin Elems(call.result) )
        => call'.result = "403" ]_vars

\* C3 witness: the chat check denied an agent that the listing for the same
\* token leaves out
C3_Witness ==
    /\ call.op = "chat"
    /\ list_agents(config, call.token, <<call.agent>>) = <<>>
    /\ call.result = "403"

----------------------------------------------------------------------------
(* Properties of the server, checked under Spec.                           *)

\* the request has called the agent service (chat, send_message_to_agent or
\* continue_after_consent)
Invoked(r) == req[r].kind \in {"chat", "mcp_chat", "consent_callback"} /\ req[r].invoked

\* C2: every request that invokes an agent (chat, MCP chat, continuation
\* after consent) has evaluated the access check for its caller and that
\* agent, and the check returned Allow.
C2_InvokedOnlyAfterAllow ==
    \A r \in Slots : Invoked(r) => req[r].decision = "Allow"

\* the step is request r's access check (the chat handler resumes after
\* get_agent)
ChatEvaluates(r) ==
    /\ req[r].pc = "await_get_agent"
    /\ req'[r].pc \in {"done", "await_chat"}

\* the step is request r's listing (the list handler resumes after
\* list_agents)
ListEvaluates(r) ==
    /\ req[r].pc = "await_list_agents"
    /\ req'[r].pc = "done"

\* C4: an evaluation that overlaps policy reloads decides from one whole
\* document: the decision of a chat check, and the list of a listing, is
\* the one that a document returned whole by _load_config and served at
\* that step yields, never one of a mixture of two documents.
C4_EvaluationReadsOneDocument ==
    [][ \A r \in Slots :
          /\ ChatEvaluates(r)
                => \E d \in {config, config'} \cap WholeDocuments :
                       req'[r].decision
                           = chat_access_check(d, req[r].user_roles, req'[r].agent)
          /\ ListEvaluates(r)
                => \E d \in {config, config'} \cap WholeDocuments :
                       req'[r].agents = list_agents(d, req[r].token, FoundryAgents)
      ]_vars

\* C4 witness: a chat request extracted its roles, the document was replaced
\* by a reload while it waited for get_agent, and its check then ran
C4_Witness ==
    \E r \in Slots :
        /\ req[r].kind = "chat"
        /\ req[r].pc = "await_chat"
        /\ req[r].reloaded

\* every decision the document yields
SameDecisions(before, after) ==
    \A rl \in RoleLists, n \in AgentNames :
        can_access_agent(after, rl, n) = can_access_agent(before, rl, n)

\* C5: a reload that fails (file missing or unparseable) leaves every
\* can_access_agent decision as it was immediately before it.
C5_FailedReloadKeepsDecisions ==
    [][ \A r \in Slots, t \in PresentedTokens, f \in {MissingFile, CorruptFile} :
          ReloadRbacConfig(r, t, f) => SameDecisions(config, config') ]_vars

----------------------------------------------------------------------------
(* Unknown roles and the default role, checked under SpecEval.             *)

\* the roles of the list that have a role_permissions entry, in their order
KnownRoles(doc, user_roles) ==
    SelectSeq(user_roles, LAMBDA role : role \in DOMAIN RolePermissions(doc))

\* C11: a role of the list that the document does not define is dropped
\* without error: the call returns a decision, and that decision is the one
\* the roles the document defines obtain without it.
C11_UnknownRoleIsDropped ==
    call.op = "can_access_agent"
        => /\ call.result \in BOOLEAN
           /\ call.result = can_access_agent(config,
                                             KnownRoles(config, call.user_roles),
                                             call.agent_name)

\* the token carries roles and the document defines none of them
OnlyUnknownRoles(doc, token) ==
    /\ ~HasNoRoles(token)
    /\ KnownRoles(doc, token.roles) = <<>>

----------------------------------------------------------------------------
(* Properties of the reload endpoint, checked under Spec.                  *)

\* the role list the reload handler extracts for the caller holds Admin
CallerIsAdmin(doc, token) == "Admin" \in Elems(get_user_roles_from_token(doc, token))

\* C13: a reload request of a caller whose roles do not include Admin is
\* answered 403 and leaves the served document as it is, and a step that
\* replaces the served document is the reload request of a caller holding
\* Admin.
C13_OnlyAdminReloads ==
    [][ /\ \A r \in Slots :
              (req[r].pc = "idle" /\ req'[r].kind = "rbac_reload")
                  => \/ (req'[r].status = "403" /\ config' = config)
                     \/ \A t \in PresentedTokens, f \in ConfigFiles :
                            ~CallerIsAdmin(config, t.claims) => ~ReloadRbacConfig(r, t, f)
        /\ config' # config
              => \E r \in Slots, t \in PresentedTokens, f \in ConfigFiles :
                     /\ ReloadRbacConfig(r, t, f)
                     /\ CallerIsAdmin(config, t.claims)
                     /\ req'[r].status = "200"
      ]_vars

\* C13 witness: a reload request was refused while a document other than
\* the built-in defaults is served
C13_Witness ==
    \E r \in Slots :
        /\ req[r].kind = "rbac_reload"
        /\ req[r].status = "403"
        /\ config # _get_default_config

----------------------------------------------------------------------------
(* Properties of the token validator, checked under SpecAuth.              *)

\* what the client receives from a failed validation
ExternalResponse(result) == [status_code |-> result.status_code, detail |-> result.detail]

\* the token passes every check that does not depend on the key set
OtherwiseValid(token) ==
    /\ token.form = "jwt"
    /\ token.signature = "verifies"
    /\ token.exp = "ahead"
    /\ token.aud = "client_id"
    /\ token.iss = "tenant"

\* the key set the first lookup of a validation consults: the cached one,
\* or the one fetched on a cold start or after the TTL
FirstLookupKeys(cache, provider) ==
    IF cache.fresh \/ ~provider.up THEN cache.keys ELSE provider.keys

\* C14: every validation failure (malformed, unknown key, bad signature,
\* expired, audience mismatch, issuer mismatch) gives the client the same
\* response, 401 "Invalid or expired token".
C14_OneUnauthenticatedResponse ==
    (call.op = "validate_token" /\ ~call.result.ok)
        => ExternalResponse(call.result)
              = [status_code |-> 401, detail |-> "Invalid or expired token"]

\* C14 witness: a token for another audience was refused and the cause was
\* logged
C14_Witness ==
    /\ call.op = "validate_token"
    /\ ~call.result.ok
    /\ call.token.aud = "other_app"
    /\ call.result.logged = "InvalidAudienceError"

\* C17: a validation whose key id is not in the key set makes exactly one
\* forced refresh and accepts the token iff the refreshed set holds the key
\* and the token is otherwise valid; a validation whose key id is in the
\* set makes none.
C17_OneForcedRefresh ==
    (call.op = "validate_token" /\ call.token.form = "jwt")
        => IF call.token.kid \in FirstLookupKeys(call.cache_before, call.provider)
           THEN call.forced = 0
           ELSE /\ call.forced = 1
                /\ call.result.ok
                      <=> /\ call.provider.up
                          /\ call.token.kid \in call.provider.keys
                          /\ OtherwiseValid(call.token)

\* C17 witness: a token signed with the rotated key was accepted after the
\* one refresh, the cached set holding only the old key
C17_Witness ==
    /\ call.op = "validate_token"
    /\ call.cache_before = [keys |-> {"k1"}, fresh |-> TRUE]
    /\ call.token.kid = "k2"
    /\ call.forced = 1
    /\ call.result.ok
    /\ "k2" \in jwks_cache.keys

\* C18: when the fetch of the key set fails, validation goes on with the
\* keys cached before: the token is accepted iff one of them is its key and
\* the token is otherwise valid.
C18_FetchFailureUsesCachedKeys ==
    ( /\ call.op = "validate_token"
      /\ call.token.form = "jwt"
      /\ ~call.provider.up
      /\ (~call.cache_before.fresh \/ call.token.kid \notin call.cache_before.keys) )
        => /\ call.result.ok
                <=> /\ call.token.kid \in call.cache_before.keys
                    /\ OtherwiseValid(call.token)
           /\ jwks_cache.keys = call.cache_before.keys

\* C18 witness: the cached set had reached its TTL, the identity provider
\* did not answer, and a token signed with a cached key was accepted
C18_Witness ==
    /\ call.op = "validate_token"
    /\ ~call.provider.up
    /\ ~call.cache_before.fresh
    /\ call.token.kid \in call.cache_before.keys
    /\ call.result.ok

----------------------------------------------------------------------------
(* The order of a request's steps, checked under Spec.                     *)

\* the token passes every check, its key being cached or published
TokenIsValidNow(token) ==
    /\ OtherwiseValid(token)
    /\ token.kid \in jwks_cache.keys \cup (IF idp.up THEN idp.keys ELSE {})

\* the steps a request can take from one position to the next
RequestOrder ==
    { <<"idle", "await_list_agents">>, <<"await_list_agents", "done">>,
      <<"idle", "await_get_agent">>, <<"await_get_agent", "await_chat">>,
      <<"await_get_agent", "done">>, <<"await_chat", "done">>,
      <<"idle", "await_session">>, <<"await_session", "await_agent">>,
      <<"await_agent", "done">>,
      <<"idle", "await_continue">>, <<"await_continue", "done">>,
      <<"idle", "done">>, <<"done", "idle">> }

----------------------------------------------------------------------------
(* The wait on the upstream run, checked under SpecConsent.                *)

\* C16: an operation is over by the deadline of its caller: a call of
\* continue_after_consent that is still waiting on the upstream run has not
\* waited longer than its caller allows.
C16_OverByDeadline ==
    (call.op = "continue_after_consent" /\ call.pc = "waiting")
        => call.elapsed <= call.deadline

----------------------------------------------------------------------------
(* What the agent service is given, checked under Spec.                    *)

\* the request is in its call of the agent service
Invoking(r) == req[r].pc \in {"await_chat", "await_agent", "await_continue"}

\* what was sent carries the subject id and the email of the token's
\* principal, and the token
CarriesIdentity(sent, bearer) ==
    /\ {"user_azure_id", "user_email", "oauth_token"} \subseteq DOMAIN sent
    /\ sent.user_azure_id = UserProfile(bearer.claims).azure_id
    /\ sent.user_email = UserProfile(bearer.claims).email
    /\ sent.oauth_token = bearer

\* C19: every call of the agent service made for an authenticated request
\* carries the subject id and the email of the principal of that request,
\* and the bearer token the request presented.
C19_InvocationCarriesIdentity ==
    \A r \in Slots :
        Invoking(r)
            => \E b \in PresentedTokens :
                   /\ "bearer" \in DOMAIN req[r] => b = req[r].bearer
                   /\ CarriesIdentity(req[r].sent, b)

----------------------------------------------------------------------------
(* The headers of the request to the agent, checked under SpecEval.        *)

\* C20: send_message adds X-User-Id and X-User-Email exactly when MCP is
\* enabled and an MCP context is given, with the azure_id and the email of
\* that context's user_identity; otherwise the request has neither header.
C20_McpHeadersWhenEnabledAndContext ==
    call.op = "send_message"
        => IF call.MCP_ENABLED /\ call.mcp_context # NoContext
           THEN /\ {"X-User-Id", "X-User-Email"} \subseteq DOMAIN call.headers
                /\ call.headers["X-User-Id"]
                       = call.mcp_context.user_identity.azure_id
                /\ call.headers["X-User-Email"]
                       = call.mcp_context.user_identity.email
           ELSE {"X-User-Id", "X-User-Email"} \cap DOMAIN call.headers = {}

\* C20 witness: a request sent with both headers, MCP being enabled and a
\* context given
C20_Witness ==
    /\ call.op = "send_message"
    /\ call.MCP_ENABLED
    /\ call.mcp_context # NoContext
    /\ "X-User-Id" \in DOMAIN call.headers

----------------------------------------------------------------------------
(* What a reload reports, checked under Spec.                              *)

\* C21: a reload whose configuration file is missing or cannot be parsed
\* reports failure: its response is not the success response.
C21_FailedReloadReportsFailure ==
    [][ \A r \in Slots :
          (req[r].pc = "idle" /\ req'[r].kind = "rbac_reload"
                /\ req'[r].status = "200")
              => \A t \in PresentedTokens, f \in {MissingFile, CorruptFile} :
                     ~ReloadRbacConfig(r, t, f) ]_vars

----------------------------------------------------------------------------
(* Loading without a usable file, checked under Spec.                      *)

\* the built-in document: Admin with allow_all, BasicUser with the patterns
\* "general" and "chat" ("ge" and "ch"), default_role BasicUser
BuiltInDocument ==
    [ role_permissions |->
        [ Admin     |-> [agent_patterns |-> << <<"*">> >>, allow_all |-> TRUE],
          BasicUser |-> [agent_patterns |-> << <<"g", "e">>, <<"c", "h">> >>,
                         allow_all |-> FALSE] ],
      default_role |-> "BasicUser" ]

\* what the built-in document grants: everything to Admin, and to BasicUser
\* the names that contain "ge" or "ch" in lower case
BuiltInGrants(user_roles, agent_name) ==
    \/ "Admin" \in Elems(user_roles)
    \/ /\ "BasicUser" \in Elems(user_roles)
       /\ \/ Contains(Lower(agent_name), <<"g", "e">>)
          \/ Contains(Lower(agent_name), <<"c", "h">>)

\* C22: loading a missing or unparseable file does not raise (the reload
\* that loads it answers 200) and installs the built-in document; while that
\* document is served, the chat decisions are the ones it grants.
C22_DefaultsWhenFileUnusable ==
    [][ \A r \in Slots :
          /\ (req[r].pc = "idle" /\ req'[r].kind = "rbac_reload")
                => \/ (req'[r].status = "200" /\ config' = BuiltInDocument)
                   \/ \A t \in PresentedTokens, f \in {MissingFile, CorruptFile} :
                          CallerIsAdmin(config, t.claims) => ~ReloadRbacConfig(r, t, f)
          /\ (req[r].pc = "await_get_agent" /\ req'[r].pc # "await_get_agent"
                /\ config = BuiltInDocument)
                => (req'[r].decision # "403")
                       = BuiltInGrants(req[r].user_roles, req'[r].agent.name)
      ]_vars

\* C22 witness: a reload has answered 200 with the built-in document
\* installed, and a chat request was granted while it is served
C22_Witness ==
    \E r \in Slots, s \in Slots :
        /\ req[r].kind = "rbac_reload"
        /\ req[r].status = "200"
        /\ config = BuiltInDocument
        /\ req[s].kind = "chat"
        /\ req[s].pc = "await_chat"
        /\ req[s].reloaded

----------------------------------------------------------------------------
(* Runs waiting for OAuth consent, checked under Spec.                     *)

\* the step is a consent callback received by request r
CallbackReceived(r) ==
    /\ req[r].pc = "idle"
    /\ req'[r].kind = "consent_callback"

\* C23: a run that stopped for consent is resumed only by a consent
\* callback with consented = true that names it; a callback with consented =
\* false returns consent_denied, resumes no run and calls the agent service
\* for nothing, and agent content is returned only by a request that resumed
\* a run.
C23_ResumedOnlyOnConsent ==
    [][ /\ \A id \in runs \ runs' :
              \E r \in Slots :
                  /\ CallbackReceived(r)
                  /\ req'[r].pc = "await_continue"
                  /\ req'[r].sent = [run_id |-> id]
                  /\ \E b \in PresentedTokens, a \in Elems(FoundryAgents) :
                         a.id = id /\ ConsentCallback(r, b, TRUE, a)
        /\ \A r \in Slots :
              /\ CallbackReceived(r)
                    => \/ (req'[r] = [kind |-> "consent_callback", pc |-> "done",
                                      status |-> "consent_denied",
                                      decision |-> "none", invoked |-> FALSE]
                              /\ runs' = runs)
                       \/ \A b \in PresentedTokens, a \in Elems(FoundryAgents) :
                              ~ConsentCallback(r, b, FALSE, a)
              /\ (req'[r].kind = "consent_callback" /\ req'[r].status = "success"
                    /\ req[r] # req'[r])
                    => (req[r].pc = "await_continue" /\ req[r].invoked)
      ]_vars

\* C23 witness: one callback was answered consent_denied and another, with
\* consent, has resumed the run
C23_Witness ==
    \E r \in Slots, s \in Slots :
        /\ req[r].kind = "consent_callback"
        /\ req[r].status = "consent_denied"
        /\ req[s].kind = "consent_callback"
        /\ req[s].pc = "await_continue"

----------------------------------------------------------------------------
(* The Authorization header, checked under SpecAuthProvider.               *)

\* C29: whenever nobody is authenticated and neither initializeAuth nor
\* login nor logout is in progress, the ApiClient holds no Authorization
\* header.
C29_NoHeaderWhenSignedOut ==
    (~authContext.isAuthenticated /\ authContext.pc = "idle")
        => authContext.Authorization = Null

----------------------------------------------------------------------------
(* The chat views, checked under SpecBrowser.                              *)

\* the ids of the displayed messages
Displayed(v) == {m.id : m \in Elems(v.messages)}

\* C24: when the session creation or the sendMessage call of a send fails,
\* the displayed list after the failure is the list before it without the
\* optimistic message of that send: nothing else is added or removed.
C24_FailedSendRemovesOptimisticOnly ==
    [][ pending' # pending
          => \A apiCall \in InFlight("createSession") \cup InFlight("sendMessage") :
                 (CreateSessionReturns(apiCall, FALSE)
                        \/ SendMessageReturns(apiCall, FALSE))
                     => /\ view'.messages = Without(view.messages, apiCall.tempId)
                        /\ apiCall.tempId \notin Displayed(view')
      ]_vars

\* C24 witness: in session A, whose history is displayed, a message was
\* sent and the send has failed (nothing was stored): the history alone is
\* displayed
C24_Witness ==
    /\ view.component = "ChatArea"
    /\ layout.activeSession = "A"
    /\ view.clock = 1
    /\ pending = {}
    /\ store = SeedStore
    /\ view.messages = SeedStore.history["A"]

\* C25: when the first message of a new chat has created its session, the
\* change of the active session starts no history fetch, and the optimistic
\* message, if it was displayed, stays displayed.
C25_FirstMessageKeepsOptimistic ==
    [][ \A apiCall \in InFlight("createSession") :
          CreateSessionReturns(apiCall, TRUE)
              => /\ \A t \in pending' :
                        t.op = "getSessionHistory"
                            => \E u \in pending :
                                  /\ u.op = "getSessionHistory"
                                  /\ u.session_id = t.session_id
                 /\ apiCall.tempId \in Displayed(view)
                        => apiCall.tempId \in Displayed(view')
      ]_vars

\* C26: the messages a sendMessage call for a session returns are added to
\* the displayed list only if that session is the active one when the call
\* returns.
C26_ReplyOnlyInItsSession ==
    [][ \A apiCall \in InFlight("sendMessage") :
          ( /\ view.component # "Chat"
            /\ layout.activeSession # apiCall.session_id
            /\ SendMessageReturns(apiCall, TRUE) )
              => \A m \in Elems(view'.messages) :
                     m.session_id = apiCall.session_id => m \in Elems(view.messages)
      ]_vars

\* C27: a history response for a session that is no longer the active one
\* does not change the displayed list.
C27_LateHistoryIsIgnored ==
    [][ \A apiCall \in InFlight("getSessionHistory"), ok \in BOOLEAN :
          ( /\ layout.activeSession # apiCall.session_id
            /\ GetSessionHistoryReturns(apiCall, ok) )
              => view'.messages = view.messages
      ]_vars

\* C28: when the delete of a session has succeeded, the sidebar's list is
\* the list of that moment without that session, and the active session is
\* cleared only if it was that session; when the delete has failed, the
\* list and the active session are unchanged.
C28_DeleteRemovesThatSessionOnly ==
    [][ \A apiCall \in InFlight("deleteSession") :
          /\ DeleteSessionReturns(apiCall, TRUE)
                => /\ layout'.sessions
                          = SelectSeq(layout.sessions,
                                      LAMBDA s : s # apiCall.session_id)
                   /\ layout'.activeSession
                          = IF layout.activeSession = apiCall.session_id
                            THEN Null
                            ELSE layout.activeSession
          /\ DeleteSessionReturns(apiCall, FALSE) => layout' = layout
      ]_vars

\* C30: at most one sendMessage request of the chat view is in flight.
C30_OneSendInFlight == Cardinality(InFlight("sendMessage")) <= 1

====
